---- MODULE Spec2Model ----
(***************************************************************************)
(* Model of the web layer of the RAG application (src/ui): the auth        *)
(* middleware, the /api/ask/stream proxy route, the chat pages that build  *)
(* ask requests, and the upload / documents routes with the Document       *)
(* table, the upload directory and the backend index they act on.          *)
(*                                                                         *)
(* Strings that the code inspects character by character (path names,      *)
(* file names) are sequences of one-character strings.  A value that may   *)
(* be undefined in the TypeScript code is a sequence of length 0 or 1.     *)
(***************************************************************************)
EXTENDS Integers, Sequences, FiniteSets, TLC

VARIABLES
    token,        \* the browser's next-auth session cookie: a user id or NoToken
    session,      \* the client's useSession() data
    page,         \* the page the browser shows
    filename,     \* the document chat page's ?filename= parameter
    expand,       \* the document chat page's expand checkbox
    provider,     \* the chat page's selected provider
    isLoading,    \* the chat page's isLoading flag
    mw,           \* the last request the web server handled and what became of it
    call,         \* the last call of askQuestion / askQuestionStream
    documents,    \* the prisma Document table
    files,        \* stored files under UPLOAD_DIR
    chunks,       \* the backend index: chunks per (user_id, filename)
    indexCalls,   \* bodies of the backend /index calls made
    nextId,       \* number of Document ids handed out
    now,          \* Date.now()
    resp,         \* the last response of the upload / documents routes
    candidate,    \* a file name offered for upload
    routeAnswer,  \* what the upload route's validation said of it (-1: not asked)
    uploads,      \* the FileUpload component's queue
    input,        \* the ChatInput component's text
    sessions,     \* the chat store's sessions
    currentSessionId, \* the chat store's currentSessionId (NoSession for null)
    sessionIdRef, \* the document chat page's sessionIdRef.current
    clock,        \* Date.now() in the browser
    stream,       \* the askQuestionStream call in progress
    callbacks,    \* the callbacks the call has invoked, in order
    fileUpload,   \* which FileUpload component is mounted, if any
    isProcessing, \* the FileUpload component's isProcessing flag
    runs          \* the upload loops of the FileUpload component in progress

askVars == <<token, session, page, filename, expand, provider, isLoading, mw, call>>
docVars == <<documents, files, chunks, indexCalls, nextId, now, resp>>
extVars == <<candidate, routeAnswer, uploads>>
chatVars == <<input, sessions, currentSessionId, sessionIdRef, clock, stream, callbacks>>
queueVars == <<fileUpload, isProcessing, runs>>
vars == <<token, session, page, filename, expand, provider, isLoading,
          mw, call, documents, files, chunks, indexCalls, nextId, now, resp,
          candidate, routeAnswer, uploads,
          input, sessions, currentSessionId, sessionIdRef, clock, stream, callbacks,
          fileUpload, isProcessing, runs>>

----------------------------------------------------------------------------
(* Values *)

Users == {"u1", "u2"}
NoToken == "none"
Tokens == Users \cup {NoToken}

\* An optional value: <<>> is undefined, <<v>> is v.
Undefined == <<>>
Some(v) == <<v>>

\* obj[k] of a JavaScript object: undefined when the key is absent.
Get(obj, k) == IF k \in DOMAIN obj THEN obj[k] ELSE Undefined

\* a ?? b
Nullish(a, b) == IF a = Undefined THEN b ELSE a[1]

StartsWith(s, p) == Len(s) >= Len(p) /\ SubSeq(s, 1, Len(p)) = p

Contains(s, c) == \E i \in 1..Len(s) : s[i] = c

----------------------------------------------------------------------------
(* Path names *)

P_home == <<"/">>
P_login == <<"/", "l", "o", "g", "i", "n">>
P_register == <<"/", "r", "e", "g", "i", "s", "t", "e", "r">>
P_login_sub == <<"/", "l", "o", "g", "i", "n", "/", "x">>
P_documents == <<"/", "d", "o", "c", "u", "m", "e", "n", "t", "s">>
P_upload == <<"/", "u", "p", "l", "o", "a", "d">>
P_docchat == <<"/", "d", "o", "c", "u", "m", "e", "n", "t", "s", "/", "d", "1", "/", "c", "h", "a", "t">>
P_api_upload == <<"/", "a", "p", "i", "/", "u", "p", "l", "o", "a", "d">>
P_api_documents == <<"/", "a", "p", "i", "/", "d", "o", "c", "u", "m", "e", "n", "t", "s", "/", "d", "1">>
P_api_documents_dot == <<"/", "a", "p", "i", "/", "d", "o", "c", "u", "m", "e", "n", "t", "s", "/", "d", ".", "1">>
P_api_auth_session == <<"/", "a", "p", "i", "/", "a", "u", "t", "h", "/", "s", "e", "s", "s", "i", "o", "n">>
P_api_ask_stream == <<"/", "a", "p", "i", "/", "a", "s", "k", "/", "s", "t", "r", "e", "a", "m">>
P_api_search == <<"/", "a", "p", "i", "/", "s", "e", "a", "r", "c", "h">>
P_api_health == <<"/", "a", "p", "i", "/", "h", "e", "a", "l", "t", "h">>
P_favicon == <<"/", "f", "a", "v", "i", "c", "o", "n", ".", "i", "c", "o">>
P_next_static == <<"/", "_", "n", "e", "x", "t", "/", "s", "t", "a", "t", "i", "c", "/", "c">>

Pre_api_auth == <<"/", "a", "p", "i", "/", "a", "u", "t", "h">>
Pre_api_ask == <<"/", "a", "p", "i", "/", "a", "s", "k">>
Pre_next_static == <<"_", "n", "e", "x", "t", "/", "s", "t", "a", "t", "i", "c">>
Pre_next_image == <<"_", "n", "e", "x", "t", "/", "i", "m", "a", "g", "e">>
Pre_favicon == <<"f", "a", "v", "i", "c", "o", "n">>
Suf_ico == <<"i", "c", "o">>

\* The pages of the application.
PagePaths == {P_home, P_login, P_register, P_documents, P_upload, P_docchat}

\* Every path a client requests in the model.
RequestPaths == PagePaths \cup
    {P_login_sub, P_api_upload, P_api_documents, P_api_documents_dot,
     P_api_auth_session, P_api_ask_stream, P_api_search, P_api_health,
     P_favicon, P_next_static}

----------------------------------------------------------------------------
(* The middleware *)

\* config.matcher: "/((?!_next/static|_next/image|favicon.ico|.*\\..*).*)".
\* The unescaped dot of favicon.ico matches any character.
matcher(pathname) ==
    /\ Len(pathname) >= 1
    /\ pathname[1] = "/"
    /\ LET rest == Tail(pathname) IN
        /\ ~StartsWith(rest, Pre_next_static)
        /\ ~StartsWith(rest, Pre_next_image)
        /\ ~(/\ StartsWith(rest, Pre_favicon)
             /\ Len(rest) >= 11
             /\ SubSeq(rest, 9, 11) = Suf_ico)
        /\ ~Contains(rest, ".")

DecisionNext == [kind |-> "next", to |-> <<>>]
DecisionRedirect(url) == [kind |-> "redirect", to |-> url]

\* A faulty variant of middleware that lists /api/upload among the public API routes.
middleware_PublicUpload(pathname, tok) ==
    LET isAuthPage == StartsWith(pathname, P_login) \/ StartsWith(pathname, P_register)
        isApiAuthRoute == StartsWith(pathname, Pre_api_auth)
        isPublicApiRoute == \/ StartsWith(pathname, Pre_api_ask)
                            \/ StartsWith(pathname, P_api_search)
                            \/ StartsWith(pathname, P_api_health)
                            \/ StartsWith(pathname, P_api_upload)
    IN  IF isApiAuthRoute THEN DecisionNext
        ELSE IF isPublicApiRoute THEN DecisionNext
        ELSE IF isAuthPage /\ tok # NoToken THEN DecisionRedirect(P_home)
        ELSE IF ~isAuthPage /\ tok = NoToken THEN DecisionRedirect(P_login)
        ELSE DecisionNext

\* middleware(request): tok is what getToken returns (NoToken for null).
middleware(pathname, tok) ==
    LET isAuthPage == StartsWith(pathname, P_login) \/ StartsWith(pathname, P_register)
        isApiAuthRoute == StartsWith(pathname, Pre_api_auth)
        isPublicApiRoute == \/ StartsWith(pathname, Pre_api_ask)
                            \/ StartsWith(pathname, P_api_search)
                            \/ StartsWith(pathname, P_api_health)
    IN  IF isApiAuthRoute THEN DecisionNext
        ELSE IF isPublicApiRoute THEN DecisionNext
        ELSE IF isAuthPage /\ tok # NoToken THEN DecisionRedirect(P_home)
        ELSE IF ~isAuthPage /\ tok = NoToken THEN DecisionRedirect(P_login)
        ELSE DecisionNext

\* What the web server does with a request: the middleware runs on the paths
\* its matcher selects, every other request goes straight to its resource.
Dispatch(pathname, tok) ==
    IF matcher(pathname) THEN middleware(pathname, tok) ELSE DecisionNext

\* The record of one request: the path and the cookie's user, the page that
\* sent it (<<>> for any other client) with its document filename, the JSON
\* body sent, whether the middleware ran, its decision, and the JSON body the
\* ask proxy forwarded to the backend.
Handled(pathname, tok, origin, fn, body, fwd) ==
    [pathname |-> pathname, token |-> tok, origin |-> origin, filename |-> fn,
     body |-> body, matched |-> matcher(pathname),
     decision |-> Dispatch(pathname, tok), forwarded |-> fwd]

\* A request without a body, from the address bar or any other client.
HandledGet(pathname, tok) == Handled(pathname, tok, <<>>, "", Undefined, Undefined)

NoRequest ==
    [pathname |-> <<>>, token |-> NoToken, origin |-> <<>>, filename |-> "",
     body |-> Undefined, matched |-> FALSE, decision |-> DecisionNext,
     forwarded |-> Undefined]

----------------------------------------------------------------------------
(* The ask client (lib/api.ts) and the chat pages *)

Providers == {"gemini", "ollama"}
Queries == {"q1"}
Filenames == {"a.md", "b.txt"}

\* useSettingsStore's values.
geminiApiKey == ""
geminiModel == "gemini-pro"
ollamaBaseUrl == "http://localhost:11434"
ollamaModel == "llama3"

\* useSession() data: undefined while the session is being fetched, null when
\* there is none, the session of the cookie's user otherwise.
SessionLoading == [status |-> "loading", id |-> NoToken]
SessionNone == [status |-> "unauthenticated", id |-> NoToken]
SessionOf(u) == [status |-> "authenticated", id |-> u]

\* session?.user?.id
SessionUserId(s) == IF s.status = "authenticated" THEN Some(s.id) ELSE Undefined

\* JSON.stringify of an object: a key whose value is undefined is left out.
JSONStringify(obj) ==
    [k \in {key \in DOMAIN obj : obj[key] # Undefined} |-> obj[k][1]]

\* A faulty variant of askQuestionStreamBody that defaults top_k to 10.
askQuestionStreamBody_OtherDefaults(query, options) ==
    JSONStringify(
        [query |-> Some(query),
         top_k |-> Some(Nullish(Get(options, "topK"), 10)),
         rerank |-> Some(Nullish(Get(options, "rerank"), FALSE)),
         expand |-> Some(Nullish(Get(options, "expand"), FALSE)),
         provider |-> Some(Nullish(Get(options, "provider"), "gemini")),
         user_id |-> Get(options, "user_id"),
         api_key |-> Get(options, "api_key"),
         model_name |-> Get(options, "model_name"),
         base_url |-> Get(options, "base_url")])

\* The body askQuestionStream posts to /api/ask/stream.
askQuestionStreamBody(query, options) ==
    JSONStringify(
        [query |-> Some(query),
         top_k |-> Some(Nullish(Get(options, "topK"), 5)),
         rerank |-> Some(Nullish(Get(options, "rerank"), FALSE)),
         expand |-> Some(Nullish(Get(options, "expand"), FALSE)),
         provider |-> Some(Nullish(Get(options, "provider"), "gemini")),
         user_id |-> Get(options, "user_id"),
         api_key |-> Get(options, "api_key"),
         model_name |-> Get(options, "model_name"),
         base_url |-> Get(options, "base_url")])

\* The body askQuestion posts to /api/ask.
askQuestionBody(query, options) ==
    JSONStringify(
        [query |-> Some(query),
         top_k |-> Some(Nullish(Get(options, "topK"), 5)),
         rerank |-> Some(Nullish(Get(options, "rerank"), FALSE)),
         expand |-> Some(Nullish(Get(options, "expand"), FALSE)),
         provider |-> Some(Nullish(Get(options, "provider"), "gemini")),
         user_id |-> Get(options, "user_id"),
         api_key |-> Get(options, "api_key"),
         model_name |-> Get(options, "model_name"),
         base_url |-> Get(options, "base_url")])

\* The record of one call of the library: the function, the page that called
\* (<<>> for any other caller) with its expand checkbox, the options passed
\* and the body posted.
Called(fn, origin, checked, options, body) ==
    [fn |-> fn, origin |-> origin, checked |-> checked,
     options |-> options, body |-> body]

NoCall == Called("none", <<>>, FALSE, <<>>, <<>>)

\* Options a caller of the library may pass: each of topK, rerank, expand and
\* provider given or left out.
CallerOptions ==
    {[k \in keys |-> CASE k = "topK" -> Some(3)
                      [] k = "rerank" -> Some(TRUE)
                      [] k = "expand" -> Some(TRUE)
                      [] k = "provider" -> Some("ollama")] :
        keys \in SUBSET {"topK", "rerank", "expand", "provider"}}

\* The options Home.handleSubmit passes to askQuestionStream.
HomeOptions ==
    [provider |-> Some(provider),
     user_id |-> SessionUserId(session),
     api_key |-> IF provider = "gemini" THEN Some(geminiApiKey) ELSE Undefined,
     model_name |-> Some(IF provider = "gemini" THEN geminiModel ELSE ollamaModel),
     base_url |-> IF provider = "ollama" THEN Some(ollamaBaseUrl) ELSE Undefined]

\* The options DocumentChatPage.handleSubmit passes to askQuestionStream.
DocumentChatOptions ==
    [provider |-> Some(provider),
     expand |-> Some(expand),
     user_id |-> SessionUserId(session),
     source_filter |-> Some(filename),
     api_key |-> IF provider = "gemini" THEN Some(geminiApiKey) ELSE Undefined,
     model_name |-> Some(IF provider = "gemini" THEN geminiModel ELSE ollamaModel),
     base_url |-> IF provider = "ollama" THEN Some(ollamaBaseUrl) ELSE Undefined]

\* POST of app/api/ask/stream/route.ts: the parsed body is serialised again
\* and posted to the backend as it came; a body that does not parse throws
\* before the fetch.
AskStreamPOST(wellFormed, body) == IF wellFormed THEN Some(body) ELSE Undefined

\* A request for /api/ask/stream as the web server handles it.
ServeAskStream(tok, origin, fn, wellFormed, body) ==
    Handled(P_api_ask_stream, tok, origin, fn,
            IF wellFormed THEN Some(body) ELSE Undefined,
            IF Dispatch(P_api_ask_stream, tok).kind = "next"
            THEN AskStreamPOST(wellFormed, body) ELSE Undefined)

\* Where a page load ends: a redirect is followed.
Landing(pathname, tok) ==
    LET d == Dispatch(pathname, tok) IN
    IF d.kind = "next" THEN pathname
    ELSE LET d2 == Dispatch(d.to, tok) IN
         IF d2.kind = "next" THEN d.to ELSE d2.to

----------------------------------------------------------------------------
(* The browser and its requests *)

ChatPages == {P_home, P_docchat}

\* LoginPage.handleSubmit: signIn succeeds, sets the cookie and refreshes the
\* client session, then router.push("/").
SignIn(u) ==
    /\ page \in {P_login, P_register}
    /\ token' = u
    /\ session' = SessionOf(u)
    /\ mw' = HandledGet(P_home, u)
    /\ page' = Landing(P_home, u)
    /\ expand' = FALSE
    /\ provider' = "gemini"
    /\ isLoading' = FALSE
    /\ UNCHANGED filename
    /\ UNCHANGED call
    /\ UNCHANGED <<docVars, extVars, chatVars, queueVars>>

\* Sidebar: signOut({ callbackUrl: "/login" }) drops the cookie and loads /login.
SignOut ==
    /\ page \notin {P_login, P_register}
    /\ token' = NoToken
    /\ session' = SessionLoading
    /\ mw' = HandledGet(P_login, NoToken)
    /\ page' = Landing(P_login, NoToken)
    /\ expand' = FALSE
    /\ provider' = "gemini"
    /\ isLoading' = FALSE
    /\ UNCHANGED filename
    /\ UNCHANGED call
    /\ UNCHANGED <<docVars, extVars, chatVars, queueVars>>

\* A full page load: the request passes the middleware, the page mounts with
\* fresh component state and useSession() starts without data.
Navigate(pathname, fn) ==
    /\ mw' = HandledGet(pathname, token)
    /\ page' = Landing(pathname, token)
    /\ session' = SessionLoading
    /\ filename' = IF Landing(pathname, token) = P_docchat THEN fn ELSE filename
    /\ expand' = FALSE
    /\ provider' = "gemini"
    /\ isLoading' = FALSE
    /\ UNCHANGED token
    /\ UNCHANGED call
    /\ UNCHANGED <<docVars, extVars, chatVars, queueVars>>

\* The client session arrives from /api/auth/session.
SessionFetched ==
    /\ session.status = "loading"
    /\ session' = IF token = NoToken THEN SessionNone ELSE SessionOf(token)
    /\ UNCHANGED <<token, page, filename, expand, provider, isLoading, mw>>
    /\ UNCHANGED call
    /\ UNCHANGED <<docVars, extVars, chatVars, queueVars>>

\* ModelSelector onChange (disabled while loading).
SetProvider(p) ==
    /\ page \in ChatPages
    /\ ~isLoading
    /\ provider' = p
    /\ UNCHANGED <<token, session, page, filename, expand, isLoading, mw>>
    /\ UNCHANGED call
    /\ UNCHANGED <<docVars, extVars, chatVars, queueVars>>

\* The document chat page's expand checkbox (disabled while loading).
SetExpand(b) ==
    /\ page = P_docchat
    /\ ~isLoading
    /\ expand' = b
    /\ UNCHANGED <<token, session, page, filename, provider, isLoading, mw>>
    /\ UNCHANGED call
    /\ UNCHANGED <<docVars, extVars, chatVars, queueVars>>

\* Home.handleSubmit, called by ChatInput with a trimmed non-empty query while
\* not loading: the fetch of askQuestionStream goes out with the cookie.
HomeSubmit(query) ==
    /\ page = P_home
    /\ ~isLoading
    /\ isLoading' = TRUE
    /\ mw' = ServeAskStream(token, P_home, "", TRUE,
                            askQuestionStreamBody(query, HomeOptions))
    /\ call' = Called("askQuestionStream", P_home, FALSE, HomeOptions,
                       askQuestionStreamBody(query, HomeOptions))
    /\ UNCHANGED <<token, session, page, filename, expand, provider>>
    /\ UNCHANGED <<docVars, extVars, queueVars>>

\* DocumentChatPage.handleSubmit.
DocumentChatSubmit(query) ==
    /\ page = P_docchat
    /\ ~isLoading
    /\ isLoading' = TRUE
    /\ mw' = ServeAskStream(token, P_docchat, filename, TRUE,
                            askQuestionStreamBody(query, DocumentChatOptions))
    /\ call' = Called("askQuestionStream", P_docchat, expand, DocumentChatOptions,
                       askQuestionStreamBody(query, DocumentChatOptions))
    /\ UNCHANGED <<token, session, page, filename, expand, provider>>
    /\ UNCHANGED <<docVars, extVars, queueVars>>

\* onComplete / onError of the stream: setIsLoading(false).
StreamEnd ==
    /\ isLoading
    /\ isLoading' = FALSE
    /\ UNCHANGED <<token, session, page, filename, expand, provider, mw>>
    /\ UNCHANGED call
    /\ UNCHANGED <<docVars, extVars, chatVars, queueVars>>

\* Any HTTP client requesting any path with any cookie.
Request(pathname, tok) ==
    /\ pathname # P_api_ask_stream
    /\ mw' = HandledGet(pathname, tok)
    /\ UNCHANGED <<token, session, page, filename, expand, provider, isLoading>>
    /\ UNCHANGED call
    /\ UNCHANGED <<docVars, extVars, chatVars, queueVars>>

\* Any HTTP client posting to /api/ask/stream a body of its own making.
DirectAskStream(tok, wellFormed, uid) ==
    /\ mw' = ServeAskStream(tok, <<>>, "", wellFormed,
                JSONStringify([query |-> Some("q1"), user_id |-> uid]))
    /\ UNCHANGED <<token, session, page, filename, expand, provider, isLoading>>
    /\ UNCHANGED call
    /\ UNCHANGED <<docVars, extVars, chatVars, queueVars>>

\* Any other caller of the library, with options of its own: askQuestion posts
\* to /api/ask, askQuestionStream to /api/ask/stream, with the browser's cookie.
AskCall(fn, query, options) ==
    /\ fn = "askQuestion" =>
         /\ call' = Called(fn, <<>>, FALSE, options, askQuestionBody(query, options))
         /\ mw' = Handled(Pre_api_ask, token, <<>>, "",
                          Some(askQuestionBody(query, options)), Undefined)
    /\ fn = "askQuestionStream" =>
         /\ call' = Called(fn, <<>>, FALSE, options, askQuestionStreamBody(query, options))
         /\ mw' = ServeAskStream(token, <<>>, "", TRUE,
                                 askQuestionStreamBody(query, options))
    /\ UNCHANGED <<token, session, page, filename, expand, provider, isLoading>>
    /\ UNCHANGED <<docVars, extVars, chatVars, queueVars>>

NextAsk ==
    \/ \E u \in Users : SignIn(u)
    \/ SignOut
    \/ \E pathname \in PagePaths, fn \in Filenames : Navigate(pathname, fn)
    \/ SessionFetched
    \/ \E p \in Providers : SetProvider(p)
    \/ \E b \in BOOLEAN : SetExpand(b)
    \/ \E q \in Queries : HomeSubmit(q) /\ UNCHANGED chatVars
    \/ \E q \in Queries : DocumentChatSubmit(q) /\ UNCHANGED chatVars
    \/ StreamEnd
    \/ \E tok \in Tokens, wf \in BOOLEAN, uid \in {Undefined} \cup {Some(u) : u \in Users} :
          DirectAskStream(tok, wf, uid)

\* The chat pages and any other caller of the ask library.
NextLib ==
    \/ \E u \in Users : SignIn(u)
    \/ \E pathname \in ChatPages, fn \in Filenames : Navigate(pathname, fn)
    \/ SessionFetched
    \/ \E b \in BOOLEAN : SetExpand(b)
    \/ \E q \in Queries : HomeSubmit(q) /\ UNCHANGED chatVars
    \/ \E q \in Queries : DocumentChatSubmit(q) /\ UNCHANGED chatVars
    \/ StreamEnd
    \/ \E fn \in {"askQuestion", "askQuestionStream"}, q \in Queries,
          options \in CallerOptions : AskCall(fn, q, options)

\* The middleware under navigation and arbitrary requests.
NextMw ==
    \/ \E u \in Users : SignIn(u)
    \/ SignOut
    \/ \E pathname \in PagePaths, fn \in Filenames : Navigate(pathname, fn)
    \/ SessionFetched
    \/ \E pathname \in RequestPaths, tok \in Tokens : Request(pathname, tok)
    \/ \E tok \in Tokens, wf \in BOOLEAN, uid \in {Undefined} \cup {Some(u) : u \in Users} :
          DirectAskStream(tok, wf, uid)

----------------------------------------------------------------------------
(* File names *)

UpperCase == <<"A", "B", "C", "D", "E", "F", "G", "H", "I", "J", "K", "L", "M",
               "N", "O", "P", "Q", "R", "S", "T", "U", "V", "W", "X", "Y", "Z">>
LowerCase == <<"a", "b", "c", "d", "e", "f", "g", "h", "i", "j", "k", "l", "m",
               "n", "o", "p", "q", "r", "s", "t", "u", "v", "w", "x", "y", "z">>
Digits == {"0", "1", "2", "3", "4", "5", "6", "7", "8", "9"}

\* The lower-case letter of each upper-case letter.
lowerOf == [c \in {UpperCase[k] : k \in 1..26} |->
               LowerCase[CHOOSE k \in 1..26 : UpperCase[k] = c]]

\* String.prototype.toLowerCase
toLowerCase(s) ==
    [i \in 1..Len(s) |-> IF s[i] \in DOMAIN lowerOf THEN lowerOf[s[i]] ELSE s[i]]

\* s.split(".").pop(): the text after the last dot, all of s when it has none.
splitPop(s) ==
    IF ~Contains(s, ".") THEN s
    ELSE LET last == CHOOSE i \in 1..Len(s) :
                        s[i] = "." /\ \A j \in (i + 1)..Len(s) : s[j] # "."
         IN SubSeq(s, last + 1, Len(s))

allowedExtensions ==
    {<<".", "t", "x", "t">>, <<".", "m", "d">>, <<".", "p", "d", "f">>}

\* const ext = "." + file.name.split(".").pop()?.toLowerCase();
\* allowedExtensions.includes(ext)
extAllowed(name) ==
    (<<".">> \o toLowerCase(splitPop(name))) \in allowedExtensions

\* The characters of the class [a-zA-Z0-9._-] (no Hangul occurs in the model).
safeChars ==
    {UpperCase[k] : k \in 1..26} \cup {LowerCase[k] : k \in 1..26}
        \cup Digits \cup {".", "_", "-"}

\* file.name.replace(/[^a-zA-Z0-9가-힣._-]/g, "_")
safeFilename(name) ==
    [i \in 1..Len(name) |-> IF name[i] \in safeChars THEN name[i] ELSE "_"]

N_b_c_MD == <<"b", " ", "c", ".", "M", "D">>
N_x_exe == <<"x", ".", "e", "x", "e">>

\* The files a user picks in the documents model: "b c.MD" and "x.exe".
DocNames == {N_b_c_MD, N_x_exe}

----------------------------------------------------------------------------
(* The upload and documents routes *)

MaxUploads == 2
ChunksPerFile == 2

\* A response: the operation, the status, the session user and the id or file
\* of the request, what the backend's /index answered ("none" when it was not
\* called), and the body's chunk_count, document_id and documents.
NoResp == [op |-> "none", status |-> 0, caller |-> NoToken, id |-> 0,
           file |-> Undefined, index |-> "none", chunk_count |-> 0,
           document_id |-> 0, documents |-> {}]

\* The backend's POST /index for (user_id, filename): a document already
\* indexed with the same content is skipped with no new chunk, a new one is
\* chunked and indexed.
BackendIndex(user_id, name) ==
    IF <<user_id, name>> \in chunks
    THEN [chunk_count |-> 0, chunks |-> chunks]
    ELSE [chunk_count |-> ChunksPerFile, chunks |-> chunks \cup {<<user_id, name>>}]

\* The early returns of POST /api/upload: 0 when the request passes them.
UploadValidation(u, file) ==
    IF u = NoToken THEN 401
    ELSE IF file = Undefined THEN 400
    ELSE IF ~extAllowed(file[1]) THEN 400
    ELSE 0

\* A faulty variant of writeFile that stores the file before the extension is checked.
writeFile_BeforeExtensionCheck(u, file, filepath) ==
    IF u # NoToken /\ file # Undefined THEN files \cup {filepath} ELSE files

\* await writeFile(filepath, fileBuffer), reached only past the early returns.
writeFile(u, file, filepath) ==
    IF UploadValidation(u, file) = 0 THEN files \cup {filepath} ELSE files

\* POST /api/upload with the session auth() returns, the form's file, what the
\* backend's /index answers ("ok", "notok", or "throw" when the fetch fails)
\* and the value of Date.now().  A request that is rejected reads neither of
\* the last two, so one value of each is enumerated for it.
UploadPOST(u, file, outcome, t) ==
    LET rejected == UploadValidation(u, file)
        name == IF file = Undefined THEN <<>> ELSE file[1]
        filepath == <<u, t, safeFilename(name)>>
        indexed == BackendIndex(u, name)
        chunkCount == IF outcome = "ok" THEN indexed.chunk_count ELSE 0
        document == [id |-> nextId + 1, filename |-> name, filepath |-> filepath,
                     chunkCount |-> chunkCount, userId |-> u]
    IN  /\ UNCHANGED <<askVars, extVars, chatVars, queueVars>>
        /\ rejected = 0 => indexCalls < MaxUploads
        /\ rejected # 0 => (outcome = "ok" /\ t = now)
        /\ files' = writeFile(u, file, filepath)
        /\ IF rejected # 0
           THEN /\ resp' = [NoResp EXCEPT !.op = "POST", !.status = rejected,
                                          !.caller = u, !.file = file]
                /\ UNCHANGED <<documents, chunks, indexCalls, nextId, now>>
           ELSE /\ now' = t
                /\ indexCalls' = indexCalls + 1
                /\ IF outcome = "throw"
                   THEN /\ resp' = [NoResp EXCEPT !.op = "POST", !.status = 500,
                                                  !.caller = u, !.file = file,
                                                  !.index = outcome]
                        /\ UNCHANGED <<documents, chunks, nextId>>
                   ELSE /\ chunks' = IF outcome = "ok" THEN indexed.chunks ELSE chunks
                        /\ documents' = documents \cup {document}
                        /\ nextId' = nextId + 1
                        /\ resp' = [NoResp EXCEPT !.op = "POST", !.status = 200,
                                                  !.caller = u, !.file = file,
                                                  !.index = outcome,
                                                  !.chunk_count = chunkCount,
                                                  !.document_id = document.id]

\* prisma.document.findMany({ where: { userId } })
findManyByUser(userId) == {d \in documents : d.userId = userId}

\* GET /api/upload
UploadGET(u) ==
    /\ IF u = NoToken
       THEN resp' = [NoResp EXCEPT !.op = "GET", !.status = 401, !.caller = u]
       ELSE resp' = [NoResp EXCEPT !.op = "GET", !.status = 200, !.caller = u,
                        !.documents = {[id |-> d.id, filename |-> d.filename,
                                        chunkCount |-> d.chunkCount] :
                                       d \in findManyByUser(u)}]
    /\ UNCHANGED <<documents, files, chunks, indexCalls, nextId, now>>
    /\ UNCHANGED <<askVars, extVars, chatVars, queueVars>>

\* A faulty variant of findFirst that does not look at the owner.
findFirst_AnyOwner(id, userId) == {d \in documents : d.id = id}

\* prisma.document.findFirst({ where: { id, userId } })
findFirst(id, userId) == {d \in documents : d.id = id /\ d.userId = userId}

\* DELETE /api/documents/{id}
DocumentDELETE(u, id) ==
    /\ IF u = NoToken
       THEN /\ resp' = [NoResp EXCEPT !.op = "DELETE", !.status = 401,
                                      !.caller = u, !.id = id]
            /\ UNCHANGED <<documents, files>>
       ELSE IF findFirst(id, u) = {}
       THEN /\ resp' = [NoResp EXCEPT !.op = "DELETE", !.status = 404,
                                      !.caller = u, !.id = id]
            /\ UNCHANGED <<documents, files>>
       ELSE LET document == CHOOSE d \in findFirst(id, u) : TRUE IN
            /\ files' = files \ {document.filepath}
            /\ documents' = {d \in documents : d.id # id}
            /\ resp' = [NoResp EXCEPT !.op = "DELETE", !.status = 200,
                                      !.caller = u, !.id = id]
    /\ UNCHANGED <<chunks, indexCalls, nextId, now>>
    /\ UNCHANGED <<askVars, extVars, chatVars, queueVars>>

NextDocs ==
    \/ \E u \in Tokens, file \in {Undefined} \cup {Some(n) : n \in DocNames},
          outcome \in {"ok", "notok", "throw"}, t \in {now, now + 1} :
          UploadPOST(u, file, outcome, t)
    \/ \E u \in Tokens : UploadGET(u)
    \/ \E u \in Tokens, id \in 1..MaxUploads : DocumentDELETE(u, id)

----------------------------------------------------------------------------
(* The extension check on arbitrary names *)

MaxNameLen == 4
Alphabet == {".", "t", "x", "T", "m", "d"}
Names == UNION {[1..n -> Alphabet] : n \in 0..MaxNameLen}

\* FileUpload.addFiles
addFiles(fileArray) ==
    LET existingNames == {uploads[i].name : i \in 1..Len(uploads)}
        Valid(name) == extAllowed(name) /\ name \notin existingNames
        validFiles == SelectSeq(fileArray, Valid)
    IN  IF Len(validFiles) = 0 /\ Len(fileArray) > 0
        THEN uploads
        ELSE uploads \o [i \in 1..Len(validFiles) |->
                            [name |-> validFiles[i], status |-> "pending"]]

\* The route's validation of the candidate, for a signed-in user.
RouteValidate ==
    /\ routeAnswer' = UploadValidation("u1", Some(candidate))
    /\ UNCHANGED <<candidate, uploads>>
    /\ UNCHANGED <<askVars, docVars, chatVars, queueVars>>

\* The candidate is dropped on, or selected in, the upload queue.
QueueAdd ==
    /\ uploads' = addFiles(<<candidate>>)
    /\ UNCHANGED <<candidate, routeAnswer>>
    /\ UNCHANGED <<askVars, docVars, chatVars, queueVars>>

NextExt ==
    \/ RouteValidate
    \/ QueueAdd

----------------------------------------------------------------------------
(* The chat store (lib/chatStore.ts) *)

\* currentSessionId: null
NoSession == 0

\* No askQuestionStream call has been made.
NoStream ==
    [phase |-> "idle", sessionId |-> NoSession, botId |-> 0, stale |-> <<>>,
     left |-> 0, buffer |-> <<>>, deleted |-> FALSE]

\* The call has returned.
Returned == [NoStream EXCEPT !.phase = "returned"]


\* The title of a new sess ("새로운 채팅").  Titles and message contents
\* are sequences of pieces of text.
NewChatTitle == <<"New Chat">>

\* The length addMessage cuts a title to.
TitleLen == 30

\* state.sessions[id] is defined
HasSession(ss, id) == \E x \in ss : x.id = id

\* state.sessions[id]
GetSession(ss, id) == CHOOSE x \in ss : x.id = id

\* { ...state.sessions, [x.id]: x }
PutSession(ss, x) == {y \in ss : y.id # x.id} \cup {x}

\* { ...msg, ...updates }
Merge(msg, updates) ==
    [k \in DOMAIN msg \cup DOMAIN updates |->
        IF k \in DOMAIN updates THEN updates[k] ELSE msg[k]]

\* content.slice(0, n)
slice(content, n) ==
    SubSeq(content, 1, IF Len(content) < n THEN Len(content) ELSE n)

\* createSession at time t: the id is Date.now(); the store's sessions after it.
createSession(ss, t) ==
    PutSession(ss, [id |-> t, title |-> NewChatTitle, messages |-> <<>>,
                    updatedAt |-> t])

\* addMessage at time t
addMessage(ss, sessionId, message, t) ==
    IF ~HasSession(ss, sessionId) THEN ss
    ELSE LET sess == GetSession(ss, sessionId)
             title == IF sess.title = NewChatTitle /\ message.role = "user"
                      THEN slice(message.content, TitleLen) \o
                           (IF Len(message.content) > TitleLen
                            THEN <<"...">> ELSE <<>>)
                      ELSE sess.title
         IN  PutSession(ss, [id |-> sess.id, title |-> title,
                             messages |-> Append(sess.messages, message),
                             updatedAt |-> t])

\* updateMessage at time t
updateMessage(ss, sessionId, messageId, updates, t) ==
    IF ~HasSession(ss, sessionId) THEN ss
    ELSE LET sess == GetSession(ss, sessionId)
             updatedMessages ==
                 [i \in 1..Len(sess.messages) |->
                     IF sess.messages[i].id = messageId
                     THEN Merge(sess.messages[i], updates)
                     ELSE sess.messages[i]]
         IN  PutSession(ss, [id |-> sess.id, title |-> sess.title,
                             messages |-> updatedMessages, updatedAt |-> t])

\* appendMessageContent at time t
appendMessageContent(ss, sessionId, messageId, content, t) ==
    IF ~HasSession(ss, sessionId) THEN ss
    ELSE LET sess == GetSession(ss, sessionId)
             updatedMessages ==
                 [i \in 1..Len(sess.messages) |->
                     IF sess.messages[i].id = messageId
                     THEN Merge(sess.messages[i],
                                [content |-> sess.messages[i].content \o content])
                     ELSE sess.messages[i]]
         IN  PutSession(ss, [id |-> sess.id, title |-> sess.title,
                             messages |-> updatedMessages, updatedAt |-> t])

\* updateSessionTitle at time t
updateSessionTitle(ss, sessionId, title, t) ==
    IF ~HasSession(ss, sessionId) THEN ss
    ELSE LET sess == GetSession(ss, sessionId)
         IN  PutSession(ss, [id |-> sess.id, title |-> title,
                             messages |-> sess.messages, updatedAt |-> t])

\* deleteSession: the sessions and the currentSessionId after it.
deleteSession(ss, cur, sessionId) ==
    [sessions |-> {y \in ss : y.id # sessionId},
     currentSessionId |-> IF cur = sessionId THEN NoSession ELSE cur]

\* clearSessions
clearSessions == [sessions |-> {}, currentSessionId |-> NoSession]

----------------------------------------------------------------------------
(* The stream reader of askQuestionStream (lib/api.ts) *)

MaxClock == 2
MaxWireLen == 4
MaxInputLen == 2
MaxMessages == 2

\* What the server writes: a line 'data: {"text": ...}', a line
\* 'data: {"references": ...}', a line 'data: [DONE]', each without its line
\* end, and the line end "\n".  A network chunk is any run of these.
EvText == "data: {text}"
EvRefs == "data: {references}"
EvDone == "data: [DONE]"
NL == "\n"
WireSymbols == {EvText, EvRefs, EvDone, NL}

Chunks(n) == UNION {[1..k -> WireSymbols] : k \in 1..n}

\* buffer.split("\n")
RECURSIVE split(_)
split(buf) ==
    IF ~Contains(buf, NL) THEN <<buf>>
    ELSE LET i == CHOOSE k \in 1..Len(buf) :
                     buf[k] = NL /\ \A j \in 1..(k - 1) : buf[j] # NL
         IN  <<SubSeq(buf, 1, i - 1)>> \o split(SubSeq(buf, i + 1, Len(buf)))

\* line.startsWith("data: ")
startsWithData(line) == Len(line) >= 1 /\ line[1] \in {EvText, EvRefs, EvDone}

\* The message a failed call hands to onError.
ErrorMessage == "Failed to fetch"

\* The error notice of the chat pages: "\n\n⚠️ 오류: " and the message.
ErrorNotice(errorMessage) == <<"\n\n", "error: ", errorMessage>>

\* chatStore.sessions[sessionId]?.messages.find(m => m.id === botId)?.content || ""
\* in the store state `snapshot`.
FindContent(snapshot, sessionId, botId) ==
    IF ~HasSession(snapshot, sessionId) THEN <<>>
    ELSE LET messages == GetSession(snapshot, sessionId).messages
             found == {i \in 1..Len(messages) : messages[i].id = botId}
         IN  IF found = {} THEN <<>>
             ELSE messages[CHOOSE i \in found : \A j \in found : i <= j].content

\* The page's onChunk callback
onChunk(ss, st, t) ==
    appendMessageContent(ss, st.sessionId, st.botId, <<"text">>, t)

\* The page's onReferences callback
onReferences(ss, st, t) ==
    updateMessage(ss, st.sessionId, st.botId, [references |-> "refs"], t)

\* The page's onComplete callback (its store part)
onComplete(ss, st, t) ==
    updateMessage(ss, st.sessionId, st.botId, [isLoading |-> FALSE], t)

\* The page's onError callback (its store part): st.stale is the content it
\* finds in chatStore, the store state of the render that made the handler.
onError(ss, st, t) ==
    updateMessage(ss, st.sessionId, st.botId,
                  [content |-> st.stale \o ErrorNotice(ErrorMessage),
                   isLoading |-> FALSE], t)

\* A faulty variant of ProcessLines that goes on with the lines after '[DONE]'.
RECURSIVE ProcessLines_PastDone(_, _, _, _, _)
ProcessLines_PastDone(lines, ss, log, st, t) ==
    IF lines = <<>> THEN [sessions |-> ss, log |-> log, done |-> FALSE]
    ELSE LET line == Head(lines) IN
         IF ~startsWithData(line)
         THEN ProcessLines_PastDone(Tail(lines), ss, log, st, t)
         ELSE IF line = <<EvDone>>
         THEN LET rest == ProcessLines_PastDone(Tail(lines), onComplete(ss, st, t),
                                                Append(log, "onComplete"), st, t)
              IN  [sessions |-> rest.sessions, log |-> rest.log, done |-> TRUE]
         ELSE IF line = <<EvText>>
         THEN ProcessLines_PastDone(Tail(lines), onChunk(ss, st, t),
                                    Append(log, "onChunk"), st, t)
         ELSE IF line = <<EvRefs>>
         THEN ProcessLines_PastDone(Tail(lines), onReferences(ss, st, t),
                                    Append(log, "onReferences"), st, t)
         ELSE ProcessLines_PastDone(Tail(lines), ss, log, st, t)

\* for (const line of lines): the sessions and the callbacks invoked after the
\* loop, and whether it returned at 'data: [DONE]'.  A data line that is
\* neither '[DONE]' nor one JSON object fails to parse and is skipped.
RECURSIVE ProcessLines(_, _, _, _, _)
ProcessLines(lines, ss, log, st, t) ==
    IF lines = <<>> THEN [sessions |-> ss, log |-> log, done |-> FALSE]
    ELSE LET line == Head(lines) IN
         IF ~startsWithData(line)
         THEN ProcessLines(Tail(lines), ss, log, st, t)
         ELSE IF line = <<EvDone>>
         THEN [sessions |-> onComplete(ss, st, t),
               log |-> Append(log, "onComplete"), done |-> TRUE]
         ELSE IF line = <<EvText>>
         THEN ProcessLines(Tail(lines), onChunk(ss, st, t),
                           Append(log, "onChunk"), st, t)
         ELSE IF line = <<EvRefs>>
         THEN ProcessLines(Tail(lines), onReferences(ss, st, t),
                           Append(log, "onReferences"), st, t)
         ELSE ProcessLines(Tail(lines), ss, log, st, t)

\* Date.now() at a step: the time of the last reading or a millisecond later.
Times == {t \in {clock, clock + 1} : t <= MaxClock}

InFlight == stream.phase \in {"fetching", "reading"}

\* fetch rejects, or the response is not OK or has no body: the catch block
\* calls onError.
FetchFails(t) ==
    /\ stream.phase = "fetching"
    /\ stream' = Returned
    /\ sessions' = onError(sessions, stream, t)
    /\ callbacks' = Append(callbacks, "onError")
    /\ isLoading' = FALSE
    /\ clock' = t
    /\ UNCHANGED <<token, session, page, filename, expand, provider, mw, call>>
    /\ UNCHANGED <<input, currentSessionId, sessionIdRef>>
    /\ UNCHANGED <<docVars, extVars, queueVars>>

\* The response arrives with a body: the reader is taken.
FetchOk ==
    /\ stream.phase = "fetching"
    /\ stream' = [stream EXCEPT !.phase = "reading"]
    /\ UNCHANGED <<askVars, docVars, extVars, queueVars>>
    /\ UNCHANGED <<input, sessions, currentSessionId, sessionIdRef, clock, callbacks>>

\* reader.read() yields a chunk: it is added to the buffer, the complete
\* lines are processed and the last, incomplete one is kept.
ReadChunk(chunk, t) ==
    /\ stream.phase = "reading"
    /\ Len(chunk) <= stream.left
    /\ LET lines == split(stream.buffer \o chunk)
           r == ProcessLines(SubSeq(lines, 1, Len(lines) - 1),
                             sessions, callbacks, stream, t)
       IN  /\ stream' = IF r.done THEN Returned
                          ELSE [stream EXCEPT !.left = @ - Len(chunk),
                                              !.buffer = lines[Len(lines)]]
           /\ sessions' = r.sessions
           /\ callbacks' = r.log
           /\ isLoading' = IF r.done THEN FALSE ELSE isLoading
    /\ clock' = t
    /\ UNCHANGED <<token, session, page, filename, expand, provider, mw, call>>
    /\ UNCHANGED <<input, currentSessionId, sessionIdRef>>
    /\ UNCHANGED <<docVars, extVars, queueVars>>

\* reader.read() yields done: the loop is left and the call returns.
ReadDone ==
    /\ stream.phase = "reading"
    /\ stream' = Returned
    /\ UNCHANGED <<askVars, docVars, extVars, queueVars>>
    /\ UNCHANGED <<input, sessions, currentSessionId, sessionIdRef, clock, callbacks>>

\* reader.read() rejects (the connection breaks): the catch block calls onError.
ReadThrows(t) ==
    /\ stream.phase = "reading"
    /\ stream' = Returned
    /\ sessions' = onError(sessions, stream, t)
    /\ callbacks' = Append(callbacks, "onError")
    /\ isLoading' = FALSE
    /\ clock' = t
    /\ UNCHANGED <<token, session, page, filename, expand, provider, mw, call>>
    /\ UNCHANGED <<input, currentSessionId, sessionIdRef>>
    /\ UNCHANGED <<docVars, extVars, queueVars>>

----------------------------------------------------------------------------
(* ChatInput, the chat pages' handleSubmit and the Sidebar *)

InputAlphabet == {" ", "a"}
Inputs == UNION {[1..n -> InputAlphabet] : n \in 0..MaxInputLen}

\* A faulty variant of trim that leaves the text as it is.
trim_Nothing(text) == text

\* String.prototype.trim
trim(text) ==
    LET kept == {i \in 1..Len(text) : text[i] # " "}
    IN  IF kept = {} THEN <<>>
        ELSE SubSeq(text, CHOOSE i \in kept : \A j \in kept : i <= j,
                          CHOOSE i \in kept : \A j \in kept : j <= i)

\* ChatInput's textarea onChange (disabled while loading).
SetInput(text) ==
    /\ page \in ChatPages
    /\ ~isLoading
    /\ input' = text
    /\ UNCHANGED <<askVars, docVars, extVars, queueVars>>
    /\ UNCHANGED <<sessions, currentSessionId, sessionIdRef, clock, stream, callbacks>>

\* The call of askQuestionStream a handleSubmit starts: the handler's closure
\* holds the store state of the render that made it.
Started(sessionId, botId) ==
    [phase |-> "fetching", sessionId |-> sessionId, botId |-> botId,
     stale |-> FindContent(sessions, sessionId, botId),
     left |-> MaxWireLen, buffer |-> <<>>, deleted |-> FALSE]

\* The model follows a session up to MaxMessages messages.
HasRoom(sessionId) ==
    HasSession(sessions, sessionId) =>
        Len(GetSession(sessions, sessionId).messages) + 2 <= MaxMessages

\* Home.handleSubmit(query) at time t: a session is created when none is
\* current, the user message and the loading assistant message are added,
\* and the request goes out.
HomeHandleSubmit(query, t) ==
    LET created == currentSessionId = NoSession
        sessionId == IF created THEN t ELSE currentSessionId
        ss1 == IF created THEN createSession(sessions, t) ELSE sessions
        userMessage == [id |-> t, role |-> "user", content |-> query]
        botId == t + 1
        botMessage == [id |-> botId, role |-> "assistant", content |-> <<>>,
                       isLoading |-> TRUE]
    IN  /\ HasRoom(sessionId)
        /\ HomeSubmit(query)
        /\ sessions' = addMessage(addMessage(ss1, sessionId, userMessage, t),
                                  sessionId, botMessage, t)
        /\ currentSessionId' = sessionId
        /\ stream' = Started(sessionId, botId)
        /\ callbacks' = <<>>
        /\ clock' = t
        /\ UNCHANGED sessionIdRef

\* DocumentChatPage.handleSubmit(query) at time t.
DocumentChatHandleSubmit(query, t) ==
    LET sessionId == IF sessionIdRef # NoSession THEN sessionIdRef
                     ELSE currentSessionId
        userMessage == [id |-> t, role |-> "user", content |-> query]
        botId == t + 1
        botMessage == [id |-> botId, role |-> "assistant", content |-> <<>>,
                       isLoading |-> TRUE]
    IN  /\ sessionId # NoSession
        /\ HasRoom(sessionId)
        /\ DocumentChatSubmit(query)
        /\ sessions' = addMessage(addMessage(sessions, sessionId, userMessage, t),
                                  sessionId, botMessage, t)
        /\ stream' = Started(sessionId, botId)
        /\ callbacks' = <<>>
        /\ clock' = t
        /\ UNCHANGED <<currentSessionId, sessionIdRef>>

\* ChatInput.handleSubmit (the send button or Enter): the trimmed text, when
\* it is not empty and the page is not loading, goes to the page's
\* handleSubmit and the text field is emptied.
ChatInputSubmit(t) ==
    LET trimmed == trim(input) IN
    /\ trimmed # <<>>
    /\ ~isLoading
    /\ input' = <<>>
    /\ \/ HomeHandleSubmit(trimmed, t)
       \/ DocumentChatHandleSubmit(trimmed, t)

\* router.push("/") of the Sidebar: Home is already shown, or it mounts with
\* fresh component state.
PushHome ==
    /\ page' = P_home
    /\ mw' = HandledGet(P_home, token)
    /\ isLoading' = IF page = P_home THEN isLoading ELSE FALSE
    /\ provider' = IF page = P_home THEN provider ELSE "gemini"
    /\ input' = IF page = P_home THEN input ELSE <<>>
    /\ sessionIdRef' = NoSession
    /\ expand' = FALSE
    /\ UNCHANGED <<token, session, filename, call>>

\* The call in progress, with a note that its session was deleted meanwhile
\* when it is among the ids removed.
Noted(removed) ==
    IF InFlight /\ stream.sessionId \in removed
    THEN [stream EXCEPT !.deleted = TRUE] ELSE stream

\* Sidebar.handleNewChat at time t
handleNewChat(t) ==
    /\ page \in ChatPages
    /\ page = P_docchat => ~InFlight
    /\ sessions' = createSession(sessions, t)
    /\ currentSessionId' = t
    /\ clock' = t
    /\ PushHome
    /\ UNCHANGED <<stream, callbacks>>
    /\ UNCHANGED <<docVars, extVars, queueVars>>

\* Sidebar.handleSessionClick
handleSessionClick(sessionId) ==
    /\ page \in ChatPages
    /\ page = P_docchat => ~InFlight
    /\ HasSession(sessions, sessionId)
    /\ currentSessionId' = sessionId
    /\ PushHome
    /\ UNCHANGED <<sessions, clock, stream, callbacks>>
    /\ UNCHANGED <<docVars, extVars, queueVars>>

\* Sidebar.handleDeleteSession, the confirm dialog answered yes.
handleDeleteSession(sessionId) ==
    /\ page \in ChatPages
    /\ HasSession(sessions, sessionId)
    /\ sessions' = deleteSession(sessions, currentSessionId, sessionId).sessions
    /\ currentSessionId' =
           deleteSession(sessions, currentSessionId, sessionId).currentSessionId
    /\ stream' = Noted({sessionId})
    /\ UNCHANGED <<askVars, docVars, extVars, queueVars>>
    /\ UNCHANGED <<input, sessionIdRef, clock, callbacks>>

\* The store's clearSessions, called by any component.
ClearSessions ==
    /\ page \in ChatPages
    /\ sessions # {}
    /\ sessions' = clearSessions.sessions
    /\ currentSessionId' = clearSessions.currentSessionId
    /\ stream' = Noted({x.id : x \in sessions})
    /\ UNCHANGED <<askVars, docVars, extVars, queueVars>>
    /\ UNCHANGED <<input, sessionIdRef, clock, callbacks>>

\* The documents page opens the chat of a document: DocumentChatPage mounts
\* and its effect, at time t, creates a session, titles it and makes it
\* current.
DocumentChatMount(fn, t) ==
    /\ page = P_home
    /\ ~InFlight
    /\ page' = P_docchat
    /\ filename' = fn
    /\ mw' = HandledGet(P_docchat, token)
    /\ isLoading' = FALSE
    /\ provider' = "gemini"
    /\ expand' = FALSE
    /\ input' = <<>>
    /\ sessions' = updateSessionTitle(createSession(sessions, t), t,
                                      <<fn, " (Document Chat)">>, t)
    /\ currentSessionId' = t
    /\ sessionIdRef' = t
    /\ clock' = t
    /\ UNCHANGED <<token, session, call, stream, callbacks>>
    /\ UNCHANGED <<docVars, extVars, queueVars>>

\* Whole lines as network chunks: a text event or the end marker.
LineChunks == {<<EvText, NL>>, <<EvDone, NL>>}

\* One chat page and one askQuestionStream call at a time, the response
\* arriving in chunks of every kind.
NextStream ==
    \/ SignIn("u1")
    \/ \E text \in Inputs : SetInput(text)
    \/ \E t \in Times : ChatInputSubmit(t)
    \/ \E t \in Times : FetchFails(t)
    \/ FetchOk
    \/ \E chunk \in Chunks(MaxWireLen), t \in Times : ReadChunk(chunk, t)
    \/ ReadDone
    \/ \E t \in Times : ReadThrows(t)

\* The chat pages and the Sidebar over the chat store, the response arriving
\* line by line.
NextStore ==
    \/ SignIn("u1")
    \/ SetInput(<<"a">>)
    \/ \E t \in Times : ChatInputSubmit(t)
    \/ \E t \in Times : FetchFails(t)
    \/ FetchOk
    \/ \E chunk \in LineChunks, t \in Times : ReadChunk(chunk, t)
    \/ ReadDone
    \/ \E t \in Times : ReadThrows(t)
    \/ \E t \in Times : handleNewChat(t)
    \/ \E sessionId \in 1..MaxClock : handleSessionClick(sessionId)
    \/ \E sessionId \in 1..MaxClock : handleDeleteSession(sessionId)
    \/ ClearSessions
    \/ \E t \in Times : DocumentChatMount("a.md", t)

----------------------------------------------------------------------------
(* The FileUpload component: the one that queues files and uploads them on   *)
(* a click (addFiles, handleStartUpload) and the one that uploads them as    *)
(* they are dropped (processFiles)                                           *)

MaxRuns == 2

N_a_md == <<"a", ".", "m", "d">>
N_b_txt == <<"b", ".", "t", "x", "t">>

\* The files of one drop or one selection.
Drops == {<<N_a_md>>, <<N_b_txt>>, <<N_a_md, N_b_txt>>}

\* u.status === "pending" || u.status === "error"
isPending(u) == u.status \in {"pending", "error"}

\* prev.map((u, idx) => (idx === i ? { ...u, status } : u))
setStatus(list, i, status) ==
    [idx \in 1..Len(list) |->
        IF idx = i THEN [name |-> list[idx].name, status |-> status]
        ELSE list[idx]]

\* The indexes after i at which the loop of a run uploads a file.
Remaining(run, i) ==
    {k \in (i + 1)..Len(run.list) :
        run.kind = "handleStartUpload" => isPending(run.list[k])}

\* The requests to /api/upload in flight: every run awaits the answer to one.
InFlightUploads == {[run |-> r, name |-> runs[r].list[runs[r].i].name] :
                       r \in 1..Len(runs)}

\* UploadPage mounts one of the two FileUpload components.
UploadPageMount(component) ==
    /\ fileUpload = "none"
    /\ fileUpload' = component
    /\ UNCHANGED <<isProcessing, runs>>
    /\ UNCHANGED <<askVars, docVars, extVars, chatVars>>

\* handleDrop / handleFileSelect of the queueing component: addFiles.  The
\* file input is disabled while processing, the drop zone is not.
handleDrop(fileArray) ==
    /\ fileUpload = "queue"
    /\ uploads' = addFiles(fileArray)
    /\ UNCHANGED <<candidate, routeAnswer>>
    /\ UNCHANGED queueVars
    /\ UNCHANGED <<askVars, docVars, chatVars>>

\* clearAll of the queueing component
clearAll ==
    /\ fileUpload = "queue"
    /\ ~isProcessing
    /\ uploads # <<>>
    /\ uploads' = <<>>
    /\ UNCHANGED <<candidate, routeAnswer>>
    /\ UNCHANGED queueVars
    /\ UNCHANGED <<askVars, docVars, chatVars>>

\* handleStartUpload, on a click of the start button, which is rendered
\* while a file is pending and disabled while processing: the loop runs over
\* the uploads of the render that made the handler, up to its first await.
handleStartUpload ==
    /\ fileUpload = "queue"
    /\ ~isProcessing
    /\ \E k \in 1..Len(uploads) : isPending(uploads[k])
    /\ Len(runs) < MaxRuns
    /\ LET run == [kind |-> "handleStartUpload", list |-> uploads, i |-> 0]
           first == CHOOSE k \in Remaining(run, 0) :
                        \A j \in Remaining(run, 0) : k <= j
       IN  /\ runs' = Append(runs, [run EXCEPT !.i = first])
           /\ uploads' = setStatus(uploads, first, "uploading")
    /\ isProcessing' = TRUE
    /\ UNCHANGED <<candidate, routeAnswer, fileUpload>>
    /\ UNCHANGED <<askVars, docVars, chatVars>>

\* const ext = "." + file.name.split(".").pop()?.toLowerCase();
\* [".txt", ".md"].includes(ext)
extAllowedImmediate(name) ==
    (<<".">> \o toLowerCase(splitPop(name))) \in
        {<<".", "t", "x", "t">>, <<".", "m", "d">>}

\* processFiles of the component that uploads at once, on a drop or a
\* selection: the list is replaced by the valid files and the loop runs up
\* to its first await.
processFiles(fileArray) ==
    /\ fileUpload = "immediate"
    /\ Len(runs) < MaxRuns
    /\ LET validFiles == SelectSeq(fileArray, extAllowedImmediate)
           initialStatuses == [k \in 1..Len(validFiles) |->
                                  [name |-> validFiles[k], status |-> "pending"]]
       IN  /\ Len(validFiles) > 0
           /\ uploads' = setStatus(initialStatuses, 1, "uploading")
           /\ runs' = Append(runs, [kind |-> "processFiles",
                                    list |-> initialStatuses, i |-> 1])
    /\ UNCHANGED <<candidate, routeAnswer, fileUpload, isProcessing>>
    /\ UNCHANGED <<askVars, docVars, chatVars>>

\* The request of run r is answered (or fails): the file's status is set and
\* the loop goes on to its next file, or ends.
UploadAnswered(r, success) ==
    /\ r \in 1..Len(runs)
    /\ LET run == runs[r]
           answered == setStatus(uploads, run.i,
                                 IF success THEN "success" ELSE "error")
           rest == Remaining(run, run.i)
       IN  IF rest # {}
           THEN LET next == CHOOSE k \in rest : \A j \in rest : k <= j
                IN  /\ uploads' = setStatus(answered, next, "uploading")
                    /\ runs' = [runs EXCEPT ![r] = [run EXCEPT !.i = next]]
                    /\ UNCHANGED isProcessing
           ELSE /\ uploads' = answered
                /\ runs' = SubSeq(runs, 1, r - 1) \o SubSeq(runs, r + 1, Len(runs))
                /\ isProcessing' = IF run.kind = "handleStartUpload"
                                   THEN FALSE ELSE isProcessing
    /\ UNCHANGED <<candidate, routeAnswer, fileUpload>>
    /\ UNCHANGED <<askVars, docVars, chatVars>>

\* The upload page with either FileUpload component.
NextQueue ==
    \/ \E component \in {"queue", "immediate"} : UploadPageMount(component)
    \/ \E fileArray \in Drops : handleDrop(fileArray)
    \/ clearAll
    \/ handleStartUpload
    \/ \E fileArray \in Drops : processFiles(fileArray)
    \/ \E r \in 1..MaxRuns, success \in BOOLEAN : UploadAnswered(r, success)

----------------------------------------------------------------------------
(* Specifications *)

\* The state after construction: a browser without a cookie on the login
\* page, an empty Document table, upload directory and backend index, and no
\* file offered.
Init ==
    /\ token = NoToken
    /\ session = SessionLoading
    /\ page = P_login
    /\ filename = "a.md"
    /\ expand = FALSE
    /\ provider = "gemini"
    /\ isLoading = FALSE
    /\ mw = NoRequest
    /\ call = NoCall
    /\ documents = {}
    /\ files = {}
    /\ chunks = {}
    /\ indexCalls = 0
    /\ nextId = 0
    /\ now = 0
    /\ resp = NoResp
    /\ candidate = <<>>
    /\ routeAnswer = -1
    /\ uploads = <<>>
    /\ input = <<>>
    /\ sessions = {}
    /\ currentSessionId = NoSession
    /\ sessionIdRef = NoSession
    /\ clock = 1
    /\ stream = NoStream
    /\ callbacks = <<>>
    /\ fileUpload = "none"
    /\ isProcessing = FALSE
    /\ runs = <<>>

\* The same state with any name of the bounded set offered for upload.
InitExt ==
    /\ token = NoToken
    /\ session = SessionLoading
    /\ page = P_login
    /\ filename = "a.md"
    /\ expand = FALSE
    /\ provider = "gemini"
    /\ isLoading = FALSE
    /\ mw = NoRequest
    /\ call = NoCall
    /\ documents = {}
    /\ files = {}
    /\ chunks = {}
    /\ indexCalls = 0
    /\ nextId = 0
    /\ now = 0
    /\ resp = NoResp
    /\ candidate \in Names
    /\ routeAnswer = -1
    /\ uploads = <<>>
    /\ input = <<>>
    /\ sessions = {}
    /\ currentSessionId = NoSession
    /\ sessionIdRef = NoSession
    /\ clock = 1
    /\ stream = NoStream
    /\ callbacks = <<>>
    /\ fileUpload = "none"
    /\ isProcessing = FALSE
    /\ runs = <<>>

\* The browser, the middleware and the ask proxy.
SpecAsk == Init /\ [][NextAsk]_vars

\* The bodies the ask library builds, for the chat pages and for any caller.
SpecLib == Init /\ [][NextLib]_vars

\* A chat page reading the response stream of its request.
SpecStream == Init /\ [][NextStream]_vars

\* The steps of a call that the network and the server drive.
StreamStep ==
    \/ \E t \in Times : FetchFails(t)
    \/ FetchOk
    \/ \E chunk \in Chunks(MaxWireLen), t \in Times : ReadChunk(chunk, t)
    \/ ReadDone
    \/ \E t \in Times : ReadThrows(t)

\* The same, where a response that is awaited arrives or fails and a reader
\* that is read yields a chunk, the end or an error.
SpecStreamFair == Init /\ [][NextStream]_vars /\ WF_vars(StreamStep)

\* The upload loops of the FileUpload component.
SpecQueue == Init /\ [][NextQueue]_vars

\* The chat pages and the Sidebar over the chat store.
SpecStore == Init /\ [][NextStore]_vars

\* The middleware's decisions for every request path and cookie.
SpecMw == Init /\ [][NextMw]_vars

\* The upload and documents routes over the Document table, the upload
\* directory and the backend index.
SpecDocs == Init /\ [][NextDocs]_vars

\* The extension check applied to every name of the bounded set.
SpecExt == InitExt /\ [][NextExt]_vars

----------------------------------------------------------------------------
(* Claims *)

\* C1: on the /api/ask/stream path no request is forwarded to the backend
\* with a user_id other than the user id of the caller's authenticated
\* session; a caller without a session gets no user_id forwarded at all.
C1_ForwardedOwnerIsCaller ==
    mw.forwarded # Undefined =>
        ("user_id" \in DOMAIN mw.forwarded[1] =>
            /\ mw.token # NoToken
            /\ mw.forwarded[1].user_id = mw.token)

\* C2: every ask request a chat page emits for a logged-in user carries a
\* user_id field equal to that user's id, also while the client session is
\* still loading.
C2_AskCarriesSessionUser ==
    (mw.origin \in ChatPages /\ mw.body # Undefined /\ mw.token # NoToken) =>
        /\ "user_id" \in DOMAIN mw.body[1]
        /\ mw.body[1].user_id = mw.token

\* C3: every ask request the document chat page emits carries, in the body
\* sent to /api/ask/stream, a source_filter equal to the document's filename.
C3_DocumentChatCarriesSourceFilter ==
    (mw.origin = P_docchat /\ mw.body # Undefined) =>
        /\ "source_filter" \in DOMAIN mw.body[1]
        /\ mw.body[1].source_filter = mw.filename

\* C4: a DELETE /api/documents/{id} that answers success has removed the
\* document's record, its stored file and the indexed chunks of its
\* (user, filename).
C4_DeleteRemovesRecordFileAndChunks ==
    [][(resp'.op = "DELETE" /\ resp'.status = 200) =>
          \A d \in documents :
              d.id = resp'.id =>
                  /\ d \notin documents'
                  /\ d.filepath \notin files'
                  /\ <<d.userId, d.filename>> \notin chunks']_vars

\* C5: there is at most one Document record per (userId, filename) pair.
C5_OneDocumentPerOwnerAndFilename ==
    \A d1 \in documents, d2 \in documents :
        (d1.userId = d2.userId /\ d1.filename = d2.filename) => d1 = d2

\* C6: an upload whose backend /index call answers non-OK is reported as
\* failed, creates no Document record and presents no chunk count as a
\* success.
C6_FailedIndexFailsUpload ==
    [][(resp'.op = "POST" /\ resp'.index = "notok") =>
          /\ resp'.status # 200
          /\ resp'.document_id = 0
          /\ documents' = documents]_vars

\* C7: GET /api/upload returns only Document records of the session user,
\* and a DELETE /api/documents/{id} aimed at a document of another user
\* answers 404 and leaves every record, stored file and chunk unchanged.
C7_DocumentOperationsOwnerScoped ==
    [][/\ (resp'.op = "GET" /\ resp'.status = 200) =>
              \A r \in resp'.documents :
                  \E d \in documents : d.id = r.id /\ d.userId = resp'.caller
       /\ (/\ resp'.op = "DELETE"
           /\ resp'.caller # NoToken
           /\ \E d \in documents : d.id = resp'.id /\ d.userId # resp'.caller) =>
              /\ resp'.status = 404
              /\ UNCHANGED <<documents, files, chunks>>]_vars

\* C7 witness: a signed-in user asked to delete a document that exists and
\* belongs to another user, and got 404.
C7_Witness ==
    /\ resp.op = "DELETE"
    /\ resp.status = 404
    /\ resp.caller # NoToken
    /\ \E d \in documents : d.id = resp.id /\ d.userId # resp.caller

\* C8: for every request the middleware is run on: paths under /api/auth,
\* /api/ask, /api/search and /api/health pass whatever the token; otherwise a
\* request with a token to a path under /login or /register is redirected to
\* /, a request without a token to any other path is redirected to /login,
\* and the rest pass.  No request without a token reaches a protected page or
\* the /api/upload and /api/documents routes.
C8_MiddlewareDecisions ==
    mw.matched =>
        LET public == \E pre \in {Pre_api_auth, Pre_api_ask, P_api_search, P_api_health} :
                          StartsWith(mw.pathname, pre)
            authPage == \E pre \in {P_login, P_register} : StartsWith(mw.pathname, pre)
        IN  /\ mw.decision =
                   IF public THEN DecisionNext
                   ELSE IF mw.token # NoToken /\ authPage THEN DecisionRedirect(P_home)
                   ELSE IF mw.token = NoToken /\ ~authPage THEN DecisionRedirect(P_login)
                   ELSE DecisionNext
            /\ (/\ mw.token = NoToken
                /\ mw.pathname \in {P_home, P_documents, P_upload, P_docchat,
                                    P_api_upload, P_api_documents}) =>
                   mw.decision.kind = "redirect"

\* C8 witness: a request without a token for /api/upload was redirected to
\* /login by the middleware.
C8_Witness ==
    /\ mw.matched
    /\ mw.pathname = P_api_upload
    /\ mw.token = NoToken
    /\ mw.decision = DecisionRedirect(P_login)

\* C9: an upload answered 401 or 400 has written no file, made no backend
\* /index call and created no Document record.
C9_RejectedUploadHasNoEffect ==
    [][(resp'.op = "POST" /\ resp'.status \in {400, 401}) =>
          UNCHANGED <<documents, files, chunks, indexCalls, nextId>>]_vars

\* C9 witness: after an earlier upload was stored, an upload of a file with an
\* unsupported extension was answered 400.
C9_Witness ==
    /\ resp.op = "POST"
    /\ resp.status = 400
    /\ resp.file # Undefined
    /\ files # {}

\* C10: the route and the upload queue accept a file name only if it has a
\* dot followed by txt, md or pdf in any letter case; every other name is
\* answered 400 by the route.
C10_AcceptedOnlyWithExtension ==
    LET hasExtension ==
            \E i \in 1..Len(candidate) :
                /\ candidate[i] = "."
                /\ toLowerCase(SubSeq(candidate, i + 1, Len(candidate)))
                       \in {<<"t", "x", "t">>, <<"m", "d">>, <<"p", "d", "f">>}
    IN  /\ routeAnswer # -1 => routeAnswer = (IF hasExtension THEN 0 ELSE 400)
        /\ Len(uploads) > 0 => hasExtension

\* C11: a body built by askQuestion or askQuestionStream has top_k 5, rerank
\* false and expand false whenever the caller leaves the option out; every
\* request of the chat pages has top_k 5 and rerank false, and expand true
\* exactly when it comes from the document chat page with the expand checkbox
\* checked.
C11_AskDefaults ==
    call.fn # "none" =>
        /\ "topK" \notin DOMAIN call.options => call.body.top_k = 5
        /\ "rerank" \notin DOMAIN call.options => call.body.rerank = FALSE
        /\ "expand" \notin DOMAIN call.options => call.body.expand = FALSE
        /\ call.origin \in ChatPages =>
              /\ call.body.top_k = 5
              /\ call.body.rerank = FALSE
              /\ call.body.expand = (call.origin = P_docchat /\ call.checked)

\* C11 witness: the document chat page sent a request with the expand checkbox
\* checked.
C11_Witness ==
    /\ call.fn = "askQuestionStream"
    /\ call.origin = P_docchat
    /\ call.checked
    /\ call.body.expand = TRUE

\* C12: no ask request of a chat page is sent with an empty or
\* whitespace-only query: the query is the trimmed, non-empty text of the
\* ChatInput.
C12_QueryNeverBlank ==
    (mw.origin \in ChatPages /\ mw.body # Undefined) =>
        LET query == mw.body[1].query IN
        /\ Len(query) >= 1
        /\ query[1] # " "
        /\ query[Len(query)] # " "

\* C12 witness: a request went out with a query and the text field was
\* emptied.
C12_Witness ==
    /\ mw.origin = P_home
    /\ mw.body # Undefined
    /\ mw.body[1].query = <<"a">>
    /\ input = <<>>
    /\ isLoading

\* Whether the call has invoked onComplete or onError.
TerminalInvoked ==
    \E i \in 1..Len(callbacks) : callbacks[i] \in {"onComplete", "onError"}

\* C14: every askQuestionStream call eventually invokes onComplete or
\* onError, and the page's isLoading flag eventually becomes false after a
\* submit.
C14_EveryCallTerminates ==
    /\ InFlight ~> TerminalInvoked
    /\ isLoading ~> ~isLoading

C16_ErrorKeepsStreamedText ==
    [][(callbacks' = Append(callbacks, "onError")
        /\ HasSession(sessions, stream.sessionId)) =>
          LET before == GetSession(sessions, stream.sessionId).messages
              after == GetSession(sessions', stream.sessionId).messages
          IN  \A i \in 1..Len(before) :
                  before[i].id = stream.botId =>
                      /\ after[i].content =
                             before[i].content \o ErrorNotice(ErrorMessage)
                      /\ after[i].isLoading = FALSE]_vars

\* C17: createSession always adds a new session, with no messages and the
\* title of a new chat, and makes it current, and leaves every session there
\* was as it is: the store holds one session more after each call.
C17_CreateSessionAddsOne ==
    [][\A t \in Times :
          /\ handleNewChat(t) =>
                /\ sessions \subseteq sessions'
                /\ Cardinality(sessions') = Cardinality(sessions) + 1
                /\ \E x \in sessions' \ sessions :
                      /\ x.id = currentSessionId'
                      /\ x.messages = <<>>
                      /\ x.title = NewChatTitle
          /\ DocumentChatMount("a.md", t) =>
                /\ sessions \subseteq sessions'
                /\ Cardinality(sessions') = Cardinality(sessions) + 1]_vars

\* C18: once the session of a call in progress has been deleted, the
\* callbacks of that call leave the store as it is.
C18_DeletedSessionStaysDeleted ==
    [][(InFlight /\ stream.deleted /\ callbacks' # callbacks) =>
          UNCHANGED <<sessions, currentSessionId>>]_vars

\* C13: a FileUpload component never has two /api/upload requests in flight
\* at once, so two index calls for one file name never overlap.
C13_OneUploadAtATime == Cardinality(InFlightUploads) <= 1

====
